---- MODULE Spec2Model ----
(***************************************************************************)
(* The two example scripts of the repository, each an async start():       *)
(*   "babylonjs"  : src/unnamed/part_000                                   *)
(*   "playcanvas" : src/examples/vite/playcanvas/starter-template-full/    *)
(*                  src/2dline.ts                                          *)
(* start() is a straight-line async function.  Every `await f(x)` is two   *)
(* steps: the segment of code up to and including the call issues the      *)
(* request and suspends; the code after it runs once the collaborator has  *)
(* settled the request (fulfilled with a value, or rejected with an        *)
(* error, which `await` rethrows and the async function turns into the     *)
(* rejection of its own promise).                                          *)
(*                                                                         *)
(* Coordinates are kept in half units (a JavaScript number n is the        *)
(* integer 2n), which makes profileWidth / 2 and axisHeight / 2 exact.     *)
(***************************************************************************)
EXTENDS Integers, Sequences, FiniteSets, TLC

VARIABLES
    script,     \* which of the two scripts runs
    dims,       \* offsetFromAxis, profileWidth, profileHeight
    pc,         \* position of start()
    awaiting,   \* index in requests of the call start() is suspended on
    requests,   \* asynchronous collaborator calls, in the order issued
    heap,       \* objects made with `new`, a reference is an index
    locals,     \* the const bindings of start()
    sceneInit,  \* the synchronous initBabylonJS / initPlayCanvas call
    promise,    \* the promise start() returns to its caller
    renderLoops,\* callbacks registered with engine.runRenderLoop
    frames,     \* frames the engine has run the callback for
    rendered,   \* scene.render() calls made by the callback
    console     \* console.log output

vars == <<script, dims, pc, awaiting, requests, heap, locals, sceneInit,
          promise, renderLoops, frames, rendered, console>>

-----------------------------------------------------------------------------
(* Bounds of the model *)

MaxHandle == 2

MaxError == 2

MaxFrames == 2

MaxOffset == 5

MaxWidth == 5

MaxHeight == 3

(* Program constants *)

OffsetFromAxis == 5

ProfileWidth == 5

ProfileHeight == 3

AxisHeight == 15

RevolveAngle == 360

Scripts == {"babylonjs", "playcanvas"}

Handles == 1..MaxHandle

Errors == 1..MaxError

\* An opaque shape pointer returned by the geometry kernel.
Pointer(h) == [ptr |-> h]

\* The value of an `await`ed call whose result start() discards.
Void == [void |-> TRUE]

\* A const binding start() has not reached yet.
Undefined == [undefined |-> TRUE]

-----------------------------------------------------------------------------
(* Numbers: whole units to half units, and n / 2 in half units *)

Coord(n) == 2 * n

Half(n) == n

Point3(x, y, z) == <<x, y, z>>

-----------------------------------------------------------------------------
(* Pure parts of start() *)

\* Faulty variant: the closing point is left out.
profilePointsOpen(s, offsetFromAxis, profileWidth, profileHeight) ==
    << Point3(Coord(offsetFromAxis), 0, 0),
       Point3(Coord(offsetFromAxis), Coord(profileHeight), 0),
       Point3(Coord(offsetFromAxis) + Coord(profileWidth), Coord(profileHeight), 0),
       Point3(Coord(offsetFromAxis) + Coord(profileWidth), 0, 0) >>

\* Faulty variant: the far side of the profile forgets the offset from the axis.
profilePointsNoOffset(s, offsetFromAxis, profileWidth, profileHeight) ==
    << Point3(Coord(offsetFromAxis), 0, 0),
       Point3(Coord(offsetFromAxis), Coord(profileHeight), 0),
       Point3(Coord(profileWidth), Coord(profileHeight), 0),
       Point3(Coord(profileWidth), 0, 0),
       Point3(Coord(offsetFromAxis), 0, 0) >>

profilePoints(s, offsetFromAxis, profileWidth, profileHeight) ==
    IF s = "babylonjs"
    THEN << Point3(Coord(offsetFromAxis), 0, 0),
            Point3(Coord(offsetFromAxis), Coord(profileHeight), 0),
            Point3(Coord(offsetFromAxis) + Coord(profileWidth), Coord(profileHeight), 0),
            Point3(Coord(offsetFromAxis) + Half(profileWidth), Half(profileHeight), 0),
            Point3(Coord(offsetFromAxis) + Coord(profileWidth), 0, 0),
            Point3(Coord(offsetFromAxis), 0, 0) >>
    ELSE << Point3(Coord(offsetFromAxis), 0, 0),
            Point3(Coord(offsetFromAxis), Coord(profileHeight), 0),
            Point3(Coord(offsetFromAxis) + Coord(profileWidth), Coord(profileHeight), 0),
            Point3(Coord(offsetFromAxis) + Coord(profileWidth), 0, 0),
            Point3(Coord(offsetFromAxis), 0, 0) >>

axisPoints ==
    << Point3(0, -Half(AxisHeight), 0),
       Point3(0, Half(AxisHeight), 0) >>

axisPolyline == [points |-> axisPoints]

cameraOptions(s) ==
    IF s = "babylonjs"
    THEN [class |-> "ArcRotateCameraDto", alpha |-> 45, beta |-> 70, radius |-> 40]
    ELSE [class |-> "OrbitCameraDto", yaw |-> 45, pitch |-> 20, distance |-> 40,
          inertiaFactor |-> "0.2"]

sceneOptions(s, camera) ==
    [class |-> IF s = "babylonjs" THEN "InitBabylonJSDto" ELSE "InitPlayCanvasDto",
     canvasId |-> IF s = "babylonjs" THEN "babylon-canvas" ELSE "playcanvas-canvas",
     sceneSize |-> 200,
     enableShadows |-> FALSE,
     enableGround |-> TRUE,
     groundColor |-> "#333333",
     groundCenter |-> Point3(0, Coord(-75), 0),
     camera |-> camera]

options == [enableOCCT |-> TRUE, enableJSCAD |-> FALSE, enableManifold |-> FALSE]

wireDrawOptions ==
    [class |-> "DrawOcctShapeOptions", edgeColour |-> "#ff0000", edgeWidth |-> "8",
     drawEdges |-> TRUE, drawFaces |-> FALSE]

axisOptions ==
    [class |-> "DrawBasicGeometryOptions", colours |-> "#ffff00", size |-> 4]

\* Faulty variant: the wire is revolved instead of the face made from it.
revolveOptionsOfWire(profileFace) ==
    [class |-> "RevolveDto", shape |-> locals.profileWire,
     direction |-> <<0, 1, 0>>, angle |-> RevolveAngle]

revolveOptions(profileFace) ==
    [class |-> "RevolveDto", shape |-> profileFace,
     direction |-> <<0, 1, 0>>, angle |-> RevolveAngle]

solidDrawOptions(s) ==
    IF s = "babylonjs"
    THEN [class |-> "DrawOcctShapeOptions", faceColour |-> "#4488ff",
          edgeColour |-> "#444444", edgeWidth |-> "0.5", drawEdges |-> TRUE,
          drawFaces |-> TRUE, faceOpacity |-> "0.3"]
    ELSE [class |-> "DrawOcctShapeOptions", faceColour |-> "#4488ff",
          edgeColour |-> "#444444", edgeWidth |-> "0.5", drawEdges |-> TRUE,
          drawFaces |-> FALSE, faceOpacity |-> "0.3", drawTwoSided |-> TRUE,
          backFaceOpacity |-> "0.3", backFaceColour |-> "#4488ff"]

-----------------------------------------------------------------------------
(* Initial states *)

InitLocals ==
    [profilePoints |-> <<>>, profileWire |-> Undefined, wireDrawOptions |-> 0,
     axisOptions |-> 0, profileFace |-> Undefined, revolveOptions |-> 0,
     revolvedSolid |-> Undefined, solidDrawOptions |-> 0]

InitRest ==
    /\ script \in Scripts
    /\ pc = "init"
    /\ awaiting = 0
    /\ requests = <<>>
    /\ heap = <<>>
    /\ locals = InitLocals
    /\ sceneInit = [called |-> FALSE, options |-> 0, ok |-> FALSE, error |-> Undefined]
    /\ promise = [state |-> "none", reason |-> Undefined]
    /\ renderLoops = 0
    /\ frames = 0
    /\ rendered = 0
    /\ console = <<>>

\* The scripts as written: offsetFromAxis = 5, profileWidth = 5, profileHeight = 3.
Init ==
    /\ dims = [offsetFromAxis |-> OffsetFromAxis, profileWidth |-> ProfileWidth,
               profileHeight |-> ProfileHeight]
    /\ InitRest

\* The profile builder for every choice of its three inputs.
InitProfile ==
    /\ dims \in [offsetFromAxis : 0..MaxOffset, profileWidth : 0..MaxWidth,
                 profileHeight : 0..MaxHeight]
    /\ InitRest

-----------------------------------------------------------------------------
(* await *)

\* start() issues an asynchronous collaborator call and suspends on it.
Issue(op, arg) ==
    /\ requests' = Append(requests, [op |-> op, arg |-> arg, status |-> "pending",
                                     result |-> Undefined])
    /\ awaiting' = Len(requests) + 1

\* Faulty variant: a call made without `await`, the code after it runs at once.
ResumeWithoutAwait(label) == pc = label

\* The call start() is suspended on at label has been settled.
Resume(label) ==
    /\ pc = label
    /\ requests[awaiting].status # "pending"

Threw == requests[awaiting].status = "rejected"

Value == requests[awaiting].result

\* Faulty variant: the error is caught and a new one thrown in its place.
PropagateWrapped ==
    /\ promise' = [state |-> "rejected", reason |-> [error |-> 0]]
    /\ pc' = "failed"
    /\ UNCHANGED <<script, dims, awaiting, requests, heap, locals, sceneInit,
                   renderLoops, frames, rendered, console>>

\* Faulty variant: a rejected call is issued again, a few times, before giving up.
PropagateRetry ==
    /\ IF Len(requests) < 10
       THEN /\ Issue(requests[awaiting].op, requests[awaiting].arg)
            /\ UNCHANGED <<pc, promise>>
       ELSE /\ promise' = [state |-> "rejected", reason |-> Value]
            /\ pc' = "failed"
            /\ UNCHANGED <<requests, awaiting>>
    /\ UNCHANGED <<script, dims, heap, locals, sceneInit, renderLoops, frames,
                   rendered, console>>

\* No try/catch in start(): a rejected await rejects start()'s promise with
\* the same reason and nothing after it runs.
Propagate ==
    /\ promise' = [state |-> "rejected", reason |-> Value]
    /\ pc' = "failed"
    /\ UNCHANGED <<script, dims, awaiting, requests, heap, locals, sceneInit,
                   renderLoops, frames, rendered, console>>

-----------------------------------------------------------------------------
(* The collaborators *)

Results(op) ==
    IF op \in {"createPolylineWire", "createFaceFromWire", "revolve"}
    THEN {Pointer(h) : h \in Handles}
    ELSE {Void}

\* A collaborator fulfils or rejects a pending call.
Settle ==
    \E i \in 1..Len(requests) :
        /\ requests[i].status = "pending"
        /\ \/ \E v \in Results(requests[i].op) :
                requests' = [requests EXCEPT ![i].status = "fulfilled", ![i].result = v]
           \/ \E e \in Errors :
                requests' = [requests EXCEPT ![i].status = "rejected",
                                             ![i].result = [error |-> e]]
        /\ UNCHANGED <<script, dims, pc, awaiting, heap, locals, sceneInit, promise,
                       renderLoops, frames, rendered, console>>

-----------------------------------------------------------------------------
(* start(), one action per segment between two awaits *)

\* Lines 39-61 / 39-62: scene options, scene bootstrap, kernel initialisation.
Start ==
    /\ pc = "init"
    /\ heap' = <<sceneOptions(script, 2), cameraOptions(script)>>
    /\ \/ \E e \in Errors :
            /\ sceneInit' = [called |-> TRUE, options |-> 1, ok |-> FALSE,
                             error |-> [error |-> e]]
            /\ promise' = [state |-> "rejected", reason |-> [error |-> e]]
            /\ pc' = "failed"
            /\ UNCHANGED <<requests, awaiting>>
       \/ /\ sceneInit' = [called |-> TRUE, options |-> 1, ok |-> TRUE,
                           error |-> Undefined]
          /\ promise' = [state |-> "pending", reason |-> Undefined]
          /\ Issue("initBitByBit", [options |-> options])
          /\ pc' = "await_initBitByBit"
    /\ UNCHANGED <<script, dims, locals, renderLoops, frames, rendered, console>>

\* `new C()` followed by the field assignments: the object gets the next reference.
NewRef == Len(heap) + 1

\* Faulty variant: every draw request after the first reuses the first style record.
DrawDtoSharedStyle(entity, ref) ==
    [entity |-> entity,
     options |-> IF locals.wireDrawOptions = 0 THEN ref ELSE locals.wireDrawOptions]

DrawDto(entity, ref) == [entity |-> entity, options |-> ref]

\* Lines 63-80 / 64-80: the profile, then the wire request.
AfterInitBitByBit ==
    /\ Resume("await_initBitByBit")
    /\ IF Threw THEN Propagate
       ELSE LET pts == profilePoints(script, dims.offsetFromAxis, dims.profileWidth,
                                     dims.profileHeight)
            IN /\ locals' = [locals EXCEPT !.profilePoints = pts]
               /\ Issue("createPolylineWire", [points |-> pts])
               /\ pc' = "await_createPolylineWire"
               /\ UNCHANGED <<script, dims, heap, sceneInit, promise, renderLoops,
                              frames, rendered, console>>

\* Faulty variant: the wire is not drawn here, presentation is left to the end.
AfterCreatePolylineWireDeferDraw ==
    /\ Resume("await_createPolylineWire")
    /\ IF Threw THEN Propagate
       ELSE /\ locals' = [locals EXCEPT !.profileWire = Value]
            /\ Issue("createFaceFromWire", [shape |-> Value, planar |-> TRUE])
            /\ pc' = "await_createFaceFromWire"
            /\ UNCHANGED <<script, dims, heap, sceneInit, promise, renderLoops,
                           frames, rendered, console>>

\* Lines 78-91: bind profileWire, build its style record, request its drawing.
AfterCreatePolylineWire ==
    /\ Resume("await_createPolylineWire")
    /\ IF Threw THEN Propagate
       ELSE /\ locals' = [locals EXCEPT !.profileWire = Value,
                                        !.wireDrawOptions = NewRef]
            /\ heap' = Append(heap, wireDrawOptions)
            /\ Issue("drawAnyAsync", DrawDto(Value, NewRef))
            /\ pc' = "await_drawWire"
            /\ UNCHANGED <<script, dims, sceneInit, promise, renderLoops, frames,
                           rendered, console>>

\* Faulty variant: face construction is skipped, the revolve is requested in its place.
IssueRevolveInsteadOfFace == Issue("revolve", [options |-> 0])

\* Lines 115-118 / 95-98.
IssueFace ==
    Issue("createFaceFromWire", [shape |-> locals.profileWire, planar |-> TRUE])

\* After the wire is drawn: part_000 lines 92-111 draw the axis next,
\* 2dline.ts lines 92-98 go on to the face.
AfterDrawWire ==
    /\ Resume("await_drawWire")
    /\ IF Threw THEN Propagate
       ELSE /\ console' = Append(console, "Profile wire drawn.")
            /\ IF script = "babylonjs"
               THEN /\ locals' = [locals EXCEPT !.axisOptions = NewRef]
                    /\ heap' = Append(heap, axisOptions)
                    /\ Issue("drawAnyAsync", DrawDto(axisPolyline, NewRef))
                    /\ pc' = "await_drawAxis"
               ELSE /\ IssueFace
                    /\ pc' = "await_createFaceFromWire"
                    /\ UNCHANGED <<locals, heap>>
            /\ UNCHANGED <<script, dims, sceneInit, promise, renderLoops, frames,
                           rendered>>

\* part_000 lines 112-118.
AfterDrawAxis ==
    /\ Resume("await_drawAxis")
    /\ IF Threw THEN Propagate
       ELSE /\ console' = Append(console, "Center axis drawn.")
            /\ IssueFace
            /\ pc' = "await_createFaceFromWire"
            /\ UNCHANGED <<script, dims, heap, locals, sceneInit, promise,
                           renderLoops, frames, rendered>>

\* Lines 115-127 / 95-107: bind profileFace, fill revolveOptions, request revolve.
AfterCreateFaceFromWire ==
    /\ Resume("await_createFaceFromWire")
    /\ IF Threw THEN Propagate
       ELSE /\ locals' = [locals EXCEPT !.profileFace = Value,
                                        !.revolveOptions = NewRef]
            /\ heap' = Append(heap, revolveOptions(Value))
            /\ Issue("revolve", [options |-> NewRef])
            /\ pc' = "await_revolve"
            /\ UNCHANGED <<script, dims, sceneInit, promise, renderLoops, frames,
                           rendered, console>>

\* Lines 127-140 / 107-123: bind revolvedSolid, build its style, request its drawing.
AfterRevolve ==
    /\ Resume("await_revolve")
    /\ IF Threw THEN Propagate
       ELSE /\ locals' = [locals EXCEPT !.revolvedSolid = Value,
                                        !.solidDrawOptions = NewRef]
            /\ heap' = Append(heap, solidDrawOptions(script))
            /\ Issue("drawAnyAsync", DrawDto(Value, NewRef))
            /\ pc' = "await_drawSolid"
            /\ UNCHANGED <<script, dims, sceneInit, promise, renderLoops, frames,
                           rendered, console>>

\* Faulty variant: the render loop is never started.
StartsRenderLoopNever(s) == FALSE

\* part_000 lines 143-147 call engine.runRenderLoop; 2dline.ts ends at line 124.
StartsRenderLoop(s) == s = "babylonjs"

\* Lines 141-148 / 124-125: the last segment; start() returns.
AfterDrawSolid ==
    /\ Resume("await_drawSolid")
    /\ IF Threw THEN Propagate
       ELSE /\ console' = Append(console, "Revolved solid created and drawn.")
            /\ renderLoops' = IF StartsRenderLoop(script) THEN renderLoops + 1
                              ELSE renderLoops
            /\ promise' = [state |-> "fulfilled", reason |-> Undefined]
            /\ pc' = "done"
            /\ UNCHANGED <<script, dims, awaiting, requests, heap, locals, sceneInit,
                           frames, rendered>>

\* part_000 lines 143-147: the engine runs the registered callback once per frame.
RenderFrame ==
    /\ renderLoops > 0
    /\ frames < MaxFrames
    /\ frames' = frames + 1
    /\ \E activeCamera \in BOOLEAN :
          rendered' = IF activeCamera THEN rendered + renderLoops ELSE rendered
    /\ UNCHANGED <<script, dims, pc, awaiting, requests, heap, locals, sceneInit,
                   promise, renderLoops, console>>

\* Everything but the frames of the render loop.
Run ==
    \/ Start
    \/ Settle
    \/ AfterInitBitByBit
    \/ AfterCreatePolylineWire
    \/ AfterDrawWire
    \/ AfterDrawAxis
    \/ AfterCreateFaceFromWire
    \/ AfterRevolve
    \/ AfterDrawSolid

Next ==
    \/ Run
    \/ RenderFrame

Spec == Init /\ [][Next]_vars

\* The profile builder applied to every choice of its inputs.
SpecProfile == InitProfile /\ [][Next]_vars

\* start() is called at module load (line 4), the event loop runs every
\* continuation whose await has settled, and every collaborator call is
\* assumed to settle eventually.
FairSpec == Spec /\ WF_vars(Run)

-----------------------------------------------------------------------------
(* Vocabulary of the properties *)

Idx == 1..Len(requests)

Pending(i) == requests[i].status = "pending"

Fulfilled(i) == requests[i].status = "fulfilled"

Rejected(i) == requests[i].status = "rejected"

Calls(op) == {i \in Idx : requests[i].op = op}

Draws == Calls("drawAnyAsync")

\* The draw requests that carry the style record bound to a const of start().
DrawsStyled(ref) == {j \in Draws : ref # 0 /\ requests[j].arg.options = ref}

Terminated == pc \in {"done", "failed"}

-----------------------------------------------------------------------------
(* C1 *)

\* C1: in both scripts the kernel requests come in the order createPolylineWire,
\* createFaceFromWire, revolve: a face request is in the system only once the
\* wire request before it has been fulfilled, and a revolve request only once
\* the face request before it has been fulfilled.
C1_KernelOrder ==
    \A j \in Idx :
        /\ requests[j].op = "createFaceFromWire" =>
              \E i \in 1..(j - 1) :
                  requests[i].op = "createPolylineWire" /\ Fulfilled(i)
        /\ requests[j].op = "revolve" =>
              \E i \in 1..(j - 1) :
                  /\ requests[i].op = "createFaceFromWire" /\ Fulfilled(i)
                  /\ \E k \in 1..(i - 1) :
                        requests[k].op = "createPolylineWire" /\ Fulfilled(k)

C1_Witness ==
    /\ script = "playcanvas"
    /\ \E j \in Calls("revolve") : Pending(j)

-----------------------------------------------------------------------------
(* C2 *)

\* The state start() is in once it has failed.
C2_FailureState ==
    pc = "failed" =>
        /\ promise.state = "rejected"
        /\ renderLoops = 0
        /\ \A i \in Idx : ~Pending(i)
        /\ IF sceneInit.ok
           THEN /\ awaiting = Len(requests)
                /\ Rejected(awaiting)
                /\ promise.reason = requests[awaiting].result
           ELSE /\ requests = <<>>
                /\ promise.reason = sceneInit.error

\* A rejected call is the last call made.
C2_RejectedIsLast ==
    \A i \in Idx : Rejected(i) => (i = Len(requests) /\ renderLoops = 0)

\* After a rejection no request is issued or re-issued, no render loop is
\* started, and start() can only move to the failure state.
C2_NothingAfterFailure ==
    (\/ \E i \in Idx : Rejected(i)
     \/ pc = "failed") =>
        /\ requests' = requests
        /\ renderLoops' = renderLoops
        /\ pc' \in {pc, "failed"}
        /\ promise'.state # "fulfilled"

\* C2: when a collaborator call fails, nothing of the pipeline is issued after
\* it (no retry, no geometry or drawing request, no render loop) and start()
\* ends failed, its promise rejected with the very error the collaborator gave.
C2_FailureAborts ==
    /\ [](C2_FailureState /\ C2_RejectedIsLast)
    /\ [][C2_NothingAfterFailure]_vars
    /\ ((\E i \in Idx : Rejected(i)) ~> (pc = "failed"))

C2_Witness ==
    /\ pc = "failed"
    /\ script = "babylonjs"
    /\ Len(requests) = 5
    /\ requests[5].op = "createFaceFromWire"
    /\ promise.reason = [error |-> 2]

-----------------------------------------------------------------------------
(* C3 *)

\* C3: at most one collaborator request is outstanding at any time: every
\* request but the most recent one has been settled.
C3_OneOutstanding ==
    /\ Cardinality({i \in Idx : Pending(i)}) <= 1
    /\ \A i \in Idx : i < Len(requests) => ~Pending(i)

C3_Witness ==
    /\ Len(requests) = 7
    /\ Pending(7)
    /\ \A i \in 1..6 : Fulfilled(i)

-----------------------------------------------------------------------------
(* C4 *)

\* C4: the face is requested from the pointer the wire request returned for
\* the profile points, the revolve from the pointer the face request returned,
\* the solid is drawn from the pointer the revolve request returned, each
\* after the producing call was fulfilled, and each of the three is requested
\* at most once, exactly once in a run that succeeds.
C4_HandlesFlow ==
    /\ \A op \in {"createPolylineWire", "createFaceFromWire", "revolve"} :
          /\ Cardinality(Calls(op)) <= 1
          /\ pc = "done" => Cardinality(Calls(op)) = 1
    /\ \A j \in Calls("createPolylineWire") :
          requests[j].arg.points = locals.profilePoints
    /\ \A j \in Calls("createFaceFromWire") :
          \E i \in 1..(j - 1) :
              /\ requests[i].op = "createPolylineWire" /\ Fulfilled(i)
              /\ requests[j].arg.shape = requests[i].result
    /\ \A j \in Calls("revolve") :
          \E i \in 1..(j - 1) :
              /\ requests[i].op = "createFaceFromWire" /\ Fulfilled(i)
              /\ requests[j].arg.options \in 1..Len(heap)
              /\ heap[requests[j].arg.options].shape = requests[i].result
    /\ \A j \in DrawsStyled(locals.solidDrawOptions) :
          \E i \in 1..(j - 1) :
              /\ requests[i].op = "revolve" /\ Fulfilled(i)
              /\ requests[j].arg.entity = requests[i].result

C4_Witness ==
    /\ pc = "done"
    /\ \E w \in Calls("createPolylineWire"), f \in Calls("createFaceFromWire"),
          r \in Calls("revolve") :
          /\ requests[w].result = Pointer(1)
          /\ requests[f].result = Pointer(2)
          /\ requests[r].result = Pointer(1)
          /\ \E d \in Draws : d > r /\ requests[d].arg.entity = Pointer(1)

-----------------------------------------------------------------------------
(* C5 *)

WireDraws == {j \in DrawsStyled(locals.wireDrawOptions) :
                 requests[j].arg.entity = locals.profileWire}

AxisDraws == {j \in DrawsStyled(locals.axisOptions) :
                 requests[j].arg.entity = axisPolyline}

SolidDraws == {j \in DrawsStyled(locals.solidDrawOptions) :
                  requests[j].arg.entity = locals.revolvedSolid}

\* C5 as stated: every successful run of start() makes three draw requests,
\* one for the profile wire, one for the axis indicator, one for the solid.
C5_ThreeDraws ==
    pc = "done" =>
        /\ Cardinality(Draws) = 3
        /\ Cardinality(WireDraws) = 1
        /\ Cardinality(AxisDraws) = 1
        /\ Cardinality(SolidDraws) = 1

\* C5 amended: a successful run makes exactly one draw request for the
\* profile wire and one for the solid, and the BabylonJS script one more for
\* the axis indicator (three in all) while the PlayCanvas script draws no
\* axis (two in all); every request carries a style record of its own.
C5_DrawsPerScript ==
    pc = "done" =>
        /\ Cardinality(WireDraws) = 1
        /\ Cardinality(SolidDraws) = 1
        /\ Cardinality(AxisDraws) = (IF script = "babylonjs" THEN 1 ELSE 0)
        /\ Cardinality(Draws) = (IF script = "babylonjs" THEN 3 ELSE 2)
        /\ \A i, j \in Draws :
              i # j => requests[i].arg.options # requests[j].arg.options
        /\ \A j \in Draws : requests[j].arg.options \in 1..Len(heap)
        /\ heap[locals.wireDrawOptions] = wireDrawOptions
        /\ heap[locals.solidDrawOptions] = solidDrawOptions(script)
        /\ script = "babylonjs" => heap[locals.axisOptions] = axisOptions

C5_Witness ==
    /\ pc = "done"
    /\ script = "playcanvas"
    /\ Cardinality(Draws) = 2
    /\ locals.profileWire = locals.revolvedSolid

-----------------------------------------------------------------------------
(* C6 *)

SolidDrawn ==
    /\ requests # <<>>
    /\ Len(requests) \in SolidDraws
    /\ Fulfilled(Len(requests))

\* C6 as stated: every successful run of start() ends with the render loop
\* started exactly once, after the solid draw has completed.
C6_RenderLoopOnce ==
    /\ pc = "done" => renderLoops = 1
    /\ renderLoops > 0 => SolidDrawn

\* C6 amended: the BabylonJS start() ends a successful run by starting the
\* render loop exactly once, after the solid draw has completed; the
\* PlayCanvas start() starts no render loop and its successful run ends when
\* the solid draw has completed.
C6_RenderLoopPerScript ==
    /\ renderLoops <= 1
    /\ renderLoops > 0 => (script = "babylonjs" /\ pc = "done")
    /\ pc = "done" =>
          /\ SolidDrawn
          /\ promise.state = "fulfilled"
          /\ renderLoops = (IF script = "babylonjs" THEN 1 ELSE 0)

C6_Witness ==
    /\ pc = "done"
    /\ script = "babylonjs"
    /\ renderLoops = 1
    /\ rendered >= 1

-----------------------------------------------------------------------------
(* C7 *)

Closed(points) ==
    /\ Len(points) >= 3
    /\ \A k \in 1..3 : points[1][k] = points[Len(points)][k]

\* C7: for every choice of offsetFromAxis, profileWidth and profileHeight the
\* point sequence handed to createPolylineWire has at least 3 points and its
\* first and last points agree in every component.
C7_ProfileClosed ==
    /\ locals.profilePoints # <<>> => Closed(locals.profilePoints)
    /\ \A j \in Calls("createPolylineWire") : Closed(requests[j].arg.points)

C7_Witness ==
    /\ script = "babylonjs"
    /\ dims = [offsetFromAxis |-> 0, profileWidth |-> 1, profileHeight |-> 2]
    /\ \E j \in Calls("createPolylineWire") :
          requests[j].arg.points[4] = Point3(Half(1), Half(2), 0)

-----------------------------------------------------------------------------
(* C8 *)

Xs(points) == {points[k][1] : k \in 1..Len(points)}

Ys(points) == {points[k][2] : k \in 1..Len(points)}

Zs(points) == {points[k][3] : k \in 1..Len(points)}

\* C8: with offsetFromAxis = 5, width = 5 and height = 3 the profile sent to
\* the kernel lies in z = 0, spans x from 5 to 10 (so never touches x = 0)
\* and y from 0 to 3, and the revolve is asked about the non-zero direction
\* [0,1,0] by 360 degrees, an angle within 0..360.
C8_RingScenario ==
    /\ dims = [offsetFromAxis |-> 5, profileWidth |-> 5, profileHeight |-> 3]
    /\ \A j \in Calls("createPolylineWire") :
          LET points == requests[j].arg.points
          IN /\ Zs(points) = {0}
             /\ \A x \in Xs(points) : Coord(5) <= x /\ x <= Coord(10)
             /\ Coord(5) \in Xs(points) /\ Coord(10) \in Xs(points)
             /\ \A y \in Ys(points) : 0 <= y /\ y <= Coord(3)
             /\ 0 \in Ys(points) /\ Coord(3) \in Ys(points)
    /\ \A j \in Calls("revolve") :
          LET dto == heap[requests[j].arg.options]
          IN /\ dto.direction = <<0, 1, 0>>
             /\ dto.direction # <<0, 0, 0>>
             /\ dto.angle = 360
             /\ dto.angle \in 0..360

C8_Witness ==
    /\ script = "babylonjs"
    /\ \E j \in Calls("revolve") : Fulfilled(j)
    /\ \E j \in Calls("createPolylineWire") :
          Point3(15, 3, 0) \in {requests[j].arg.points[k] : k \in 1..6}

-----------------------------------------------------------------------------
(* C9 *)

\* C9 as stated: presentation is the last stage, no draw request is issued
\* before the revolve request has completed.
C9_NoDrawBeforeRevolve ==
    \A j \in Draws :
        \E i \in 1..(j - 1) : requests[i].op = "revolve" /\ Fulfilled(i)

\* The draw requests issued before request j that have completed.
DrawnBefore(j) == {d \in Draws : d < j /\ Fulfilled(d)}

\* C9 amended: the profile wire (and, in the BabylonJS script, the axis) is
\* drawn right after wire construction, before the face is requested; only
\* the solid is drawn after the revolve request has completed.  A failure of
\* face construction or revolution leaves the wire (and the axis) drawn and
\* the solid undrawn.
C9_DrawsInterleaved ==
    /\ \A j \in Calls("createFaceFromWire") \cup Calls("revolve") :
          /\ DrawnBefore(j) = {d \in Draws : d < j}
          /\ Cardinality(DrawnBefore(j) \cap WireDraws) = 1
          /\ Cardinality(DrawnBefore(j)) = (IF script = "babylonjs" THEN 2 ELSE 1)
          /\ script = "babylonjs" => Cardinality(DrawnBefore(j) \cap AxisDraws) = 1
          /\ Rejected(j) => \A d \in Draws : d < j
    /\ \A j \in Draws :
          \/ \E f \in Calls("createFaceFromWire") : j < f
          \/ Calls("createFaceFromWire") = {}
          \/ \E i \in 1..(j - 1) : requests[i].op = "revolve" /\ Fulfilled(i)

C9_Witness ==
    /\ pc = "failed"
    /\ script = "babylonjs"
    /\ \E j \in Calls("revolve") : Rejected(j)
    /\ Cardinality({d \in Draws : Fulfilled(d)}) = 2

-----------------------------------------------------------------------------
(* C10 *)

\* Nothing is requested of the kernel or of the drawing collaborator before
\* initBitByBit has completed.
C10_InitFirst ==
    /\ requests # <<>> => requests[1].op = "initBitByBit"
    /\ Len(requests) >= 2 => Fulfilled(1)
    /\ \A j \in Idx : j > 1 => requests[j].op # "initBitByBit"

\* No loop and no retry: no call is made twice, 7 calls at most.
C10_BoundedCalls ==
    /\ Len(requests) <= 7
    /\ \A op \in {"initBitByBit", "createPolylineWire", "createFaceFromWire",
                  "revolve"} : Cardinality(Calls(op)) <= 1
    /\ Cardinality(Draws) <= 3

\* C10: no kernel or drawing request precedes the completion of initBitByBit,
\* and if every collaborator call settles, start() reaches success or failure
\* after a bounded number of calls.
C10_InitFirstAndTerminates ==
    /\ [](C10_InitFirst /\ C10_BoundedCalls)
    /\ <>Terminated

C10_Witness ==
    /\ pc = "done"
    /\ Len(requests) = 7
    /\ requests[1].op = "initBitByBit"

====
